---- MODULE Spec2Model ----
(***************************************************************************)
(* Crypto-Dashboard: the scheduled ingestion pipeline (lambda_handler),    *)
(* the manual refresh of the web process (api_refresh) and the persistence *)
(* layer (DatabaseService) both drive, with its cleanup of old rows.       *)
(*                                                                         *)
(* Tables are the three SQLAlchemy models.  Money amounts are integers in  *)
(* tenths of the last decimal place the column keeps, so that the rounding *)
(* a Numeric(p, s) column applies on INSERT is visible.                    *)
(* datetime.utcnow() is a clock that is strictly greater at every read.    *)
(***************************************************************************)
EXTENDS Integers, Sequences, FiniteSets, TLC

VARIABLES
    CryptoCurrency,    \* table cryptocurrencies: id -> [name, symbol, by]
    CryptoData,        \* table crypto_data: rows in insertion (id) order
    DashboardUpdate,   \* table dashboard_updates: rows in insertion order
    clock,             \* last value datetime.utcnow() returned
    pc,                \* position of the running lambda_handler
    crypto_data,       \* lambda_handler local: [none, list]
    timestamp,         \* store_crypto_data local
    existing_cryptos,  \* store_crypto_data local: ids found by the bulk query
    storage_success,   \* lambda_handler local
    email_sent,        \* lambda_handler local
    result,            \* what lambda_handler returns
    calls,             \* collaborator calls of the current run, in order
    runs,              \* number of invocations so far; tags the rows a run writes
    failed_row,        \* row at which the current store call failed (0: none)
    log_returned,      \* what log_dashboard_update returned (the handler drops it)
    lastStored,        \* quotes and timestamp of the last committed store
    groups,            \* every committed store: [by, timestamp, n]
    rpc,               \* position of the running api_refresh
    refresh_data,      \* api_refresh local top_10_data: [none, list]
    refresh_timestamp, \* local of the store_crypto_data call of api_refresh
    refresh_existing,  \* local of the store_crypto_data call of api_refresh
    response,          \* what api_refresh returns
    refresh_calls,     \* collaborator calls of the current api_refresh, in order
    refreshes,         \* number of api_refresh requests so far; request n tags its rows -n
    refresh_stored,    \* what store_crypto_data returned to api_refresh, which drops it
    jumps,             \* number of idle periods so far
    logs,              \* number of direct log_dashboard_update calls so far
    purges,            \* number of cleanup_old_data calls so far
    purged,            \* the last cleanup_old_data call: [days, now, ok]
    provider,          \* what the market-data provider answers to the request
    fetch_result       \* what fetch_top_10_cryptocurrencies returned for it

db == <<CryptoCurrency, CryptoData, DashboardUpdate>>
locals == <<crypto_data, timestamp, existing_cryptos, storage_success, email_sent>>
vars == <<CryptoCurrency, CryptoData, DashboardUpdate, clock, pc, crypto_data,
          timestamp, existing_cryptos, storage_success, email_sent, result,
          calls, runs, failed_row, log_returned, lastStored, groups,
          rpc, refresh_data, refresh_timestamp, refresh_existing, response,
          refresh_calls, refreshes, refresh_stored, jumps, logs, purges, purged,
          provider, fetch_result>>
\* the request handler api_refresh
refresh == <<rpc, refresh_data, refresh_timestamp, refresh_existing, response,
             refresh_calls, refreshes, refresh_stored>>
\* the scheduled handler lambda_handler
scheduled == <<pc, crypto_data, timestamp, existing_cryptos, storage_success,
               email_sent, result, calls, runs, failed_row, log_returned>>
\* direct use of DatabaseService
maintenance == <<jumps, logs, purges, purged>>
\* the provider client CryptoService
fetcher == <<provider, fetch_result>>

----------------------------------------------------------------------------
(* Bounds *)

MaxRuns == 2

(* Program constants *)

TopN == 10

None == "None"
FETCH_ERROR_MSG == "Failed to fetch cryptocurrency data from CoinGecko API"
STORE_ERROR_MSG == "Failed to store cryptocurrency data in database"

----------------------------------------------------------------------------
(* Quote lists the fetcher can hand to the pipeline.  Amounts are in tenths *)
(* of the column's last decimal place: price_usd in 1e-9 USD, market cap in *)
(* 1e-3 USD.                                                                *)

Quote(i, v, p, m, r) ==
    [id |-> i, name |-> <<"name", i, v>>, symbol |-> <<"SYM", i, v>>,
     price_usd |-> p, market_cap_usd |-> m, market_cap_rank |-> r]

\* ranks 1..10 in list order, amounts the columns hold exactly
BatchA == [k \in 1..TopN |-> Quote(k, 1, 1000 * (TopN + 1 - k), 50000 * (TopN + 1 - k), k)]
\* other ids and names, list order opposite to rank order
BatchB == [k \in 1..TopN |-> Quote(k + 1, 2, 700 * k, 30000 * k, TopN + 1 - k)]
\* amounts with more decimals than the columns keep
BatchC == [k \in 1..TopN |-> Quote(k, 3, 1000 * (TopN + 1 - k) + k, 50000 * (TopN + 1 - k) + 4, k)]
\* the provider repeats an id
BatchDup == [k \in 1..TopN |-> Quote(IF k = 4 THEN 3 ELSE k, 1, 10 * k, 100 * k, k)]
\* the provider returns fewer than ten coins, none of them in BatchA
BatchShort == [k \in 1..2 |-> Quote(k + TopN, 4, 20 * k, 200 * k, k)]

Batches == {BatchA, BatchB, BatchC, BatchDup, BatchShort, <<>>}

NoData == [none |-> TRUE, list |-> <<>>]
SomeData(l) == [none |-> FALSE, list |-> l]

\* no request has been answered or returned yet
NoAnswer == [error |-> TRUE, data |-> <<>>]
NotFetched == [returned |-> FALSE, value |-> NoData]

\* Python truthiness of crypto_data: None and [] are falsy
Falsy(cd) == cd.none \/ cd.list = <<>>

Init ==
    /\ CryptoCurrency = <<>>
    /\ CryptoData = <<>>
    /\ DashboardUpdate = <<>>
    /\ clock = 0
    /\ pc = "idle"
    /\ crypto_data = NoData
    /\ timestamp = 0
    /\ existing_cryptos = {}
    /\ storage_success = FALSE
    /\ email_sent = FALSE
    /\ result = [statusCode |-> 0, status |-> "", message |-> "",
                 cryptocurrencies_updated |-> 0, email_sent |-> FALSE]
    /\ calls = <<>>
    /\ runs = 0
    /\ failed_row = 0
    /\ log_returned = FALSE
    /\ lastStored = [none |-> TRUE, list |-> <<>>, timestamp |-> 0]
    /\ groups = {}
    /\ rpc = "idle"
    /\ refresh_data = NoData
    /\ refresh_timestamp = 0
    /\ refresh_existing = {}
    /\ response = [code |-> 0, status |-> "", message |-> ""]
    /\ refresh_calls = <<>>
    /\ refreshes = 0
    /\ refresh_stored = FALSE
    /\ jumps = 0
    /\ logs = 0
    /\ purges = 0
    /\ purged = [days |-> 0, now |-> 0, ok |-> FALSE]
    /\ provider = NoAnswer
    /\ fetch_result = NotFetched


----------------------------------------------------------------------------
(* Persistence layer: DatabaseService over the three tables *)

\* datetime.utcnow(): every read is later than the one before it
utcnow == clock + 1

\* What a Numeric(p, s) column keeps of an amount given in tenths of its last
\* decimal place: the value rounded to s decimals, half away from zero
\* (amounts are never negative here).
Numeric(x) == ((x + 5) \div 10) * 10

\* One iteration of the loop of store_crypto_data, as the flush writes it:
\* the cryptocurrencies row (INSERT when the bulk query did not find the id,
\* UPDATE of name and symbol otherwise) and the new crypto_data row.
\* `by` tags a row with the run that wrote it last; it is no column.
WriteRowKeepsOldName(tx, q, ts, by) ==
    [tx EXCEPT
        !.CryptoCurrency =
            tx.CryptoCurrency
                @@ (q.id :> [name |-> q.name, symbol |-> q.symbol, by |-> by]),
        !.CryptoData = Append(tx.CryptoData,
            [crypto_id |-> q.id,
             price_usd |-> Numeric(q.price_usd),
             market_cap_usd |-> Numeric(q.market_cap_usd),
             market_cap_rank |-> q.market_cap_rank,
             timestamp |-> ts,
             by |-> by])]
WriteRowStampsEachRow(tx, q, ts, by) ==
    [tx EXCEPT
        !.CryptoCurrency =
            (q.id :> [name |-> q.name, symbol |-> q.symbol, by |-> by])
                @@ tx.CryptoCurrency,
        !.CryptoData = Append(tx.CryptoData,
            [crypto_id |-> q.id,
             price_usd |-> Numeric(q.price_usd),
             market_cap_usd |-> Numeric(q.market_cap_usd),
             market_cap_rank |-> q.market_cap_rank,
             timestamp |-> ts + Len(tx.CryptoData),
             by |-> by])]
WriteRowDataOnly(tx, q, ts, by) ==
    [tx EXCEPT
        !.CryptoData = Append(tx.CryptoData,
            [crypto_id |-> q.id,
             price_usd |-> Numeric(q.price_usd),
             market_cap_usd |-> Numeric(q.market_cap_usd),
             market_cap_rank |-> q.market_cap_rank,
             timestamp |-> ts,
             by |-> by])]
WriteRow(tx, q, ts, by) ==
    [tx EXCEPT
        !.CryptoCurrency =
            (q.id :> [name |-> q.name, symbol |-> q.symbol, by |-> by])
                @@ tx.CryptoCurrency,
        !.CryptoData = Append(tx.CryptoData,
            [crypto_id |-> q.id,
             price_usd |-> Numeric(q.price_usd),
             market_cap_usd |-> Numeric(q.market_cap_usd),
             market_cap_rank |-> q.market_cap_rank,
             timestamp |-> ts,
             by |-> by])]

\* The row the database refuses: an INSERT of an id that is already a primary
\* key (the id was not among existing_cryptos), or an UPDATE of a row that is
\* gone.
RowNeverRejected(tx, q, existing) == FALSE
RowRejected(tx, q, existing) ==
    \/ q.id \notin existing /\ q.id \in DOMAIN tx.CryptoCurrency
    \/ q.id \in existing /\ q.id \notin DOMAIN tx.CryptoCurrency

\* The rows of crypto_list written into the open transaction from row k on;
\* failAt is the row at which the write raises (0: the database raises at none).
\* failed is the row that raised, 0 when every row was written.
RECURSIVE WriteRows(_, _, _, _, _, _, _)
WriteRows(tx, crypto_list, existing, ts, by, k, failAt) ==
    IF k > Len(crypto_list) THEN [tx EXCEPT !.failed = 0]
    ELSE IF k = failAt \/ RowRejected(tx, crypto_list[k], existing)
         THEN [tx EXCEPT !.failed = k]
         ELSE WriteRows(WriteRow(tx, crypto_list[k], ts, by),
                        crypto_list, existing, ts, by, k + 1, failAt)

\* session.rollback(): the tables are as they were committed
RollbackKeepsWrites(committed, tx) == tx
Rollback(committed, tx) == committed

\* store_crypto_data from the loop on: [CryptoCurrency, CryptoData, failed];
\* the call returns True exactly when failed = 0.
store_crypto_data(cc, cd, crypto_list, existing, ts, by, failAt) ==
    LET committed == [CryptoCurrency |-> cc, CryptoData |-> cd, failed |-> 0]
        tx == WriteRows(committed, crypto_list, existing, ts, by, 1, failAt)
    IN  IF tx.failed = 0
        THEN tx
        ELSE [Rollback(committed, tx) EXCEPT !.failed = tx.failed]

\* ORDER BY market_cap_rank: rows of equal rank in the order they had
KeepInsertionOrder(rows) == rows
OrderByRank(rows) ==
    LET Before(j, i) ==
            \/ rows[j].market_cap_rank < rows[i].market_cap_rank
            \/ rows[j].market_cap_rank = rows[i].market_cap_rank /\ j < i
        Position(i) == Cardinality({j \in DOMAIN rows : Before(j, i)}) + 1
    IN  [p \in DOMAIN rows |-> rows[CHOOSE i \in DOMAIN rows : Position(i) = p]]

Limit(rows, n) == SubSeq(rows, 1, IF Len(rows) < n THEN Len(rows) ELSE n)

\* ORDER BY timestamp DESC LIMIT 1
EarliestTimestamp(cd) ==
    CHOOSE t \in {cd[i].timestamp : i \in DOMAIN cd} :
        \A i \in DOMAIN cd : t <= cd[i].timestamp
LatestTimestamp(cd) ==
    CHOOSE t \in {cd[i].timestamp : i \in DOMAIN cd} :
        \A i \in DOMAIN cd : cd[i].timestamp <= t

\* WHERE crypto_data.timestamp = latest_timestamp
AtLatestAnyTimestamp(cd, row) == TRUE
AtLatest(cd, row) == row.timestamp = LatestTimestamp(cd)

\* The crypto_data rows get_latest_top_10 selects: those at the latest
\* timestamp that join a cryptocurrencies row, by rank, at most ten.
LatestRows(cc, cd) ==
    IF cd = <<>> THEN <<>>
    ELSE LET Selected(row) == AtLatest(cd, row) /\ row.crypto_id \in DOMAIN cc
         IN  Limit(OrderByRank(SelectSeq(cd, Selected)), TopN)

\* the dictionary get_latest_top_10 builds from a row
View(cc, row) ==
    [crypto_id |-> row.crypto_id,
     name |-> cc[row.crypto_id].name,
     symbol |-> cc[row.crypto_id].symbol,
     price_usd |-> row.price_usd,
     market_cap_usd |-> row.market_cap_usd,
     market_cap_rank |-> row.market_cap_rank,
     timestamp |-> row.timestamp]

get_latest_top_10(cc, cd) ==
    LET rows == LatestRows(cc, cd)
    IN  [i \in 1..Len(rows) |-> View(cc, rows[i])]

LatestTop == get_latest_top_10(CryptoCurrency, CryptoData)

\* json.dumps(top_10_data) if top_10_data else None
NoPayload == [null |-> TRUE, json |-> <<>>]
Serialized(top_10_data) ==
    IF Falsy(top_10_data) THEN NoPayload ELSE [null |-> FALSE, json |-> top_10_data.list]

\* the keyword arguments as the row keeps them
RowDropsMessage(status, error_message, sent, top_10_data, now, by) ==
    [update_timestamp |-> now, status |-> status, error_message |-> None,
     email_sent |-> sent, top_10_data |-> Serialized(top_10_data), by |-> by]
RowMarkedSent(status, error_message, sent, top_10_data, now, by) ==
    [update_timestamp |-> now, status |-> status, error_message |-> error_message,
     email_sent |-> TRUE, top_10_data |-> Serialized(top_10_data), by |-> by]
UpdateRow(status, error_message, sent, top_10_data, now, by) ==
    [update_timestamp |-> now, status |-> status, error_message |-> error_message,
     email_sent |-> sent, top_10_data |-> Serialized(top_10_data), by |-> by]

\* log_dashboard_update: the table after the call.  ok is whether the INSERT
\* and its commit went through; when they raise, the session is rolled back.
log_dashboard_update(du, status, error_message, sent, top_10_data, now, by, ok) ==
    IF ok
    THEN Append(du, UpdateRow(status, error_message, sent, top_10_data, now, by))
    ELSE du

\* get_last_update(): the row order_by(desc(update_timestamp)).first() picks,
\* as the dict the method builds, or None
NoUpdate ==
    [none |-> TRUE, timestamp |-> 0, status |-> "", error_message |-> None,
     email_sent |-> FALSE]
OldestUpdate(du) ==
    CHOOSE row \in {du[i] : i \in DOMAIN du} :
        \A i \in DOMAIN du : row.update_timestamp <= du[i].update_timestamp
NewestUpdate(du) ==
    CHOOSE row \in {du[i] : i \in DOMAIN du} :
        \A i \in DOMAIN du : du[i].update_timestamp <= row.update_timestamp
get_last_update(du) ==
    IF du = <<>> THEN NoUpdate
    ELSE LET last_update == NewestUpdate(du)
         IN  [none |-> FALSE,
              timestamp |-> last_update.update_timestamp,
              status |-> last_update.status,
              error_message |-> last_update.error_message,
              email_sent |-> last_update.email_sent]

----------------------------------------------------------------------------
(* Pipeline orchestrator: lambda_handler, one action per collaborator call *)

\* what fetch_top_10_cryptocurrencies returns: None, or the list it built
FetchResults == {NoData} \cup {SomeData(b) : b \in Batches}

NoResult ==
    [statusCode |-> 0, status |-> "", message |-> "",
     cryptocurrencies_updated |-> 0, email_sent |-> FALSE]
ErrorResultReportsOk(msg) ==
    [statusCode |-> 200, status |-> "success", message |-> msg,
     cryptocurrencies_updated |-> 0, email_sent |-> FALSE]
ErrorResult(msg) ==
    [statusCode |-> 500, status |-> "error", message |-> msg,
     cryptocurrencies_updated |-> 0, email_sent |-> FALSE]
ResultFailsUnsent(n, sent) ==
    [statusCode |-> IF sent THEN 200 ELSE 500,
     status |-> IF sent THEN "success" ELSE "error",
     message |-> "Dashboard updated successfully",
     cryptocurrencies_updated |-> n, email_sent |-> sent]
SuccessResult(n, sent) ==
    [statusCode |-> 200, status |-> "success",
     message |-> "Dashboard updated successfully",
     cryptocurrencies_updated |-> n, email_sent |-> sent]

\* `if not crypto_data`
AfterFetchAlwaysStores(fetched) == "store_begin"
AfterFetch(fetched) == IF Falsy(fetched) THEN "log_fetch_failed" ELSE "store_begin"

\* `if not storage_success`
AfterStoreRetries(success) == IF success THEN "notify" ELSE "store_begin"
AfterStoreAlwaysNotifies(success) == "notify"
AfterStore(success) == IF success THEN "notify" ELSE "log_store_failed"

\* The handler is invoked and fetches.
Fetch ==
    /\ pc = "idle"
    /\ runs < MaxRuns
    /\ \E fetched \in FetchResults :
        /\ crypto_data' = fetched
        /\ pc' = AfterFetch(fetched)
    /\ runs' = runs + 1
    /\ calls' = <<"fetchTop">>
    /\ UNCHANGED <<db, clock, timestamp, existing_cryptos, storage_success,
                   email_sent, result, failed_row, log_returned,
                   lastStored, groups, refresh, maintenance, fetcher>>

\* The handler is invoked and an import or a service constructor raises: the
\* outer except returns the error before any collaborator is called.
UnexpectedError ==
    /\ pc = "idle"
    /\ runs < MaxRuns
    /\ runs' = runs + 1
    /\ result' = ErrorResult("Unexpected error in Lambda function")
    /\ pc' = "done"
    /\ UNCHANGED <<db, clock, locals, calls, failed_row, log_returned,
                   lastStored, groups, refresh, maintenance, fetcher>>

\* the first call of a failure branch: log_dashboard_update(status="failed", ...)
LogFailed(at, msg) ==
    /\ pc = at
    /\ \E ok \in BOOLEAN :
        /\ DashboardUpdate' = log_dashboard_update(
               DashboardUpdate, "failed", msg, FALSE, NoData, utcnow, runs, ok)
        /\ log_returned' = ok
    /\ clock' = utcnow
    /\ calls' = Append(calls, "logRun")
    /\ UNCHANGED <<CryptoCurrency, CryptoData, locals, result, runs, failed_row,
                   lastStored, groups, refresh, maintenance, fetcher>>

\* the second call of a failure branch: send_error_notification(error_msg),
\* whose result the handler drops, and the return of the error
AlertFailed(at, msg) ==
    /\ pc = at
    /\ \E sent \in BOOLEAN : calls' = Append(calls, "sendErrorAlert")
    /\ result' = ErrorResult(msg)
    /\ pc' = "done"
    /\ UNCHANGED <<db, clock, locals, runs, failed_row, log_returned,
                   lastStored, groups, refresh, maintenance, fetcher>>

LogFetchFailed == LogFailed("log_fetch_failed", FETCH_ERROR_MSG) /\ pc' = "alert_fetch_failed"
SendFetchAlert == AlertFailed("alert_fetch_failed", FETCH_ERROR_MSG)

\* store_crypto_data up to the loop: the timestamp and the bulk query
StoreBegin ==
    /\ pc = "store_begin"
    /\ timestamp' = utcnow
    /\ clock' = utcnow
    /\ existing_cryptos' =
        {crypto_data.list[i].id : i \in DOMAIN crypto_data.list} \cap DOMAIN CryptoCurrency
    /\ calls' = Append(calls, "storeSnapshot")
    /\ pc' = "store_commit"
    /\ UNCHANGED <<db, crypto_data, storage_success, email_sent, result, runs,
                   failed_row, log_returned,
                   lastStored, groups, refresh, maintenance, fetcher>>

\* store_crypto_data from the loop to its return
StoreCommit ==
    /\ pc = "store_commit"
    /\ \E failAt \in 0..Len(crypto_data.list) :
        LET r == store_crypto_data(CryptoCurrency, CryptoData, crypto_data.list,
                                   existing_cryptos, timestamp, runs, failAt)
        IN  /\ CryptoCurrency' = r.CryptoCurrency
            /\ CryptoData' = r.CryptoData
            /\ failed_row' = r.failed
            /\ storage_success' = (r.failed = 0)
            /\ pc' = AfterStore(r.failed = 0)
            /\ lastStored' =
                IF r.failed = 0
                THEN [none |-> FALSE, list |-> crypto_data.list, timestamp |-> timestamp]
                ELSE lastStored
            /\ groups' =
                IF r.failed = 0
                THEN groups \cup {[by |-> runs, timestamp |-> timestamp,
                                   n |-> Len(crypto_data.list)]}
                ELSE groups
    /\ UNCHANGED <<DashboardUpdate, clock, crypto_data, timestamp, existing_cryptos,
                   email_sent, result, calls, runs, log_returned, refresh,
                   maintenance, fetcher>>

LogStoreFailed == LogFailed("log_store_failed", STORE_ERROR_MSG) /\ pc' = "alert_store_failed"
SendStoreAlert == AlertFailed("alert_store_failed", STORE_ERROR_MSG)

\* send_daily_dashboard_email(crypto_data)
SendDailyEmail ==
    /\ pc = "notify"
    /\ \E sent \in BOOLEAN : email_sent' = sent
    /\ calls' = Append(calls, "sendSummary")
    /\ pc' = "log_success"
    /\ UNCHANGED <<db, clock, crypto_data, timestamp, existing_cryptos,
                   storage_success, result, runs, failed_row, log_returned,
                   lastStored, groups, refresh, maintenance, fetcher>>

\* log_dashboard_update(status="success", error_message=None, email_sent=email_sent)
\* and the return of the success result
LogSuccess ==
    /\ pc = "log_success"
    /\ \E ok \in BOOLEAN :
        /\ DashboardUpdate' = log_dashboard_update(
               DashboardUpdate, "success", None, email_sent, NoData, utcnow, runs, ok)
        /\ log_returned' = ok
    /\ clock' = utcnow
    /\ calls' = Append(calls, "logRun")
    /\ result' = SuccessResult(Len(crypto_data.list), email_sent)
    /\ pc' = "done"
    /\ UNCHANGED <<CryptoCurrency, CryptoData, locals, runs, failed_row,
                   lastStored, groups, refresh, maintenance, fetcher>>

\* the handler has returned and its locals are gone; the scheduler may invoke
\* it again
Return ==
    /\ pc = "done"
    /\ pc' = "idle"
    /\ crypto_data' = NoData
    /\ timestamp' = 0
    /\ existing_cryptos' = {}
    /\ storage_success' = FALSE
    /\ email_sent' = FALSE
    /\ result' = NoResult
    /\ calls' = <<>>
    /\ failed_row' = 0
    /\ log_returned' = FALSE
    /\ UNCHANGED <<db, clock, runs,
                   lastStored, groups, refresh, maintenance, fetcher>>

Next ==
    \/ Fetch
    \/ UnexpectedError
    \/ LogFetchFailed
    \/ SendFetchAlert
    \/ StoreBegin
    \/ StoreCommit
    \/ LogStoreFailed
    \/ SendStoreAlert
    \/ SendDailyEmail
    \/ LogSuccess
    \/ Return

Spec == Init /\ [][Next]_vars

----------------------------------------------------------------------------
(* The manual refresh: api_refresh of routes.py, served by the Flask process *)
(* next to the scheduled handler.                                            *)

\* requests, scheduled or manual, in one behaviour of the concurrent specification
MaxRequests == 2

NoResponse == [code |-> 0, status |-> "", message |-> ""]
RefreshedResponse == [code |-> 200, status |-> "success", message |-> "Data refreshed successfully"]
RefreshFetchFailed ==
    [code |-> 500, status |-> "error", message |-> "Failed to fetch data from CoinGecko API"]
RefreshFailed == [code |-> 500, status |-> "error", message |-> "Refresh failed"]

\* `if top_10_data:`
AfterRefreshFetchAlwaysStores(fetched) == "store_begin"
AfterRefreshFetch(fetched) == IF Falsy(fetched) THEN "done" ELSE "store_begin"

\* The request arrives and api_refresh fetches; a falsy result is answered at once.
RefreshFetch ==
    /\ rpc = "idle"
    /\ runs + refreshes < MaxRequests
    /\ \E fetched \in FetchResults :
        /\ refresh_data' = fetched
        /\ rpc' = AfterRefreshFetch(fetched)
        /\ response' = IF Falsy(fetched) THEN RefreshFetchFailed ELSE response
    /\ refreshes' = refreshes + 1
    /\ refresh_calls' = <<"fetchTop">>
    /\ UNCHANGED <<db, clock, refresh_timestamp, refresh_existing, refresh_stored,
                   lastStored, groups, scheduled, maintenance, fetcher>>

\* The request arrives and a service constructor raises: the outer except answers.
RefreshUnexpected ==
    /\ rpc = "idle"
    /\ runs + refreshes < MaxRequests
    /\ refreshes' = refreshes + 1
    /\ response' = RefreshFailed
    /\ rpc' = "done"
    /\ UNCHANGED <<db, clock, refresh_data, refresh_timestamp, refresh_existing,
                   refresh_calls, refresh_stored, lastStored, groups, scheduled,
                   maintenance, fetcher>>

\* store_crypto_data(top_10_data) up to the loop
RefreshStoreBegin ==
    /\ rpc = "store_begin"
    /\ refresh_timestamp' = utcnow
    /\ clock' = utcnow
    /\ refresh_existing' =
        {refresh_data.list[i].id : i \in DOMAIN refresh_data.list} \cap DOMAIN CryptoCurrency
    /\ refresh_calls' = Append(refresh_calls, "storeSnapshot")
    /\ rpc' = "store_commit"
    /\ UNCHANGED <<db, refresh_data, response, refreshes, refresh_stored, lastStored,
                   groups, scheduled, maintenance, fetcher>>

\* store_crypto_data(top_10_data) from the loop to its return, which api_refresh
\* drops, and the success response with its own clock read
RefreshStoreCommit ==
    /\ rpc = "store_commit"
    /\ \E failAt \in 0..Len(refresh_data.list) :
        LET r == store_crypto_data(CryptoCurrency, CryptoData, refresh_data.list,
                                   refresh_existing, refresh_timestamp, -refreshes, failAt)
        IN  /\ CryptoCurrency' = r.CryptoCurrency
            /\ CryptoData' = r.CryptoData
            /\ refresh_stored' = (r.failed = 0)
            /\ lastStored' =
                IF r.failed = 0
                THEN [none |-> FALSE, list |-> refresh_data.list,
                      timestamp |-> refresh_timestamp]
                ELSE lastStored
            /\ groups' =
                IF r.failed = 0
                THEN groups \cup {[by |-> -refreshes, timestamp |-> refresh_timestamp,
                                   n |-> Len(refresh_data.list)]}
                ELSE groups
    /\ clock' = utcnow
    /\ response' = RefreshedResponse
    /\ rpc' = "done"
    /\ UNCHANGED <<DashboardUpdate, refresh_data, refresh_timestamp, refresh_existing,
                   refresh_calls, refreshes, scheduled, maintenance, fetcher>>

\* the response is sent and the locals of the request are gone
RefreshReturn ==
    /\ rpc = "done"
    /\ rpc' = "idle"
    /\ refresh_data' = NoData
    /\ refresh_timestamp' = 0
    /\ refresh_existing' = {}
    /\ response' = NoResponse
    /\ refresh_calls' = <<>>
    /\ refresh_stored' = FALSE
    /\ UNCHANGED <<db, clock, refreshes, lastStored, groups, scheduled, maintenance, fetcher>>

api_refresh ==
    \/ RefreshFetch
    \/ RefreshUnexpected
    \/ RefreshStoreBegin
    \/ RefreshStoreCommit
    \/ RefreshReturn

\* the scheduler invokes the handler while the Flask process serves requests
ScheduledFetch == runs + refreshes < MaxRequests /\ Fetch
ScheduledUnexpectedError == runs + refreshes < MaxRequests /\ UnexpectedError

\* Scheduled runs and manual refreshes, every step of one interleaved with the
\* steps of the other.
NextConcurrent ==
    \/ ScheduledFetch
    \/ ScheduledUnexpectedError
    \/ LogFetchFailed
    \/ SendFetchAlert
    \/ StoreBegin
    \/ StoreCommit
    \/ LogStoreFailed
    \/ SendStoreAlert
    \/ SendDailyEmail
    \/ LogSuccess
    \/ Return
    \/ api_refresh

SpecConcurrent == Init /\ [][NextConcurrent]_vars


----------------------------------------------------------------------------
(* Maintenance: DatabaseService called directly, store_crypto_data and       *)
(* log_dashboard_update as the handlers call them and cleanup_old_data on    *)
(* its own schedule, with idle time between the calls.  The behaviours start *)
(* from an empty database or from the database earlier runs have left.      *)

\* calls and idle periods in one behaviour
MaxCalls == 3

\* clock ticks in a day
Day == 10

DATA_RETENTION_DAYS == 30

\* what days_to_keep is called with
KeepDays == {5, DATA_RETENTION_DAYS}

\* idle periods: a tick short of five days, and thirty days
Jumps == {5 * Day - 1, DATA_RETENTION_DAYS * Day}

\* Earlier runs, each a store_crypto_data(list) at tick `at` that committed,
\* followed by the log_dashboard_update of its success a tick later: no run
\* yet, or three runs thirty days apart of which the last is five days old.
NoPast == <<>>
ThreeRuns ==
    <<[list |-> BatchA, at |-> 1],
      [list |-> BatchC, at |-> 1 + DATA_RETENTION_DAYS * Day],
      [list |-> BatchShort, at |-> 1 + 2 * DATA_RETENTION_DAYS * Day]>>
Pasts == {NoPast, ThreeRuns}

\* the tick of the last clock read before the behaviour starts
Now(past) == IF past = NoPast THEN 0 ELSE past[Len(past)].at + 5 * Day - 1

\* The tables the first k runs of `past` left, written by store_crypto_data and
\* log_dashboard_update themselves; rows written before the behaviour starts
\* are tagged 0.
RECURSIVE Replay(_, _)
Replay(past, k) ==
    IF k = 0
    THEN [CryptoCurrency |-> <<>>, CryptoData |-> <<>>, DashboardUpdate |-> <<>>]
    ELSE LET before == Replay(past, k - 1)
             run == past[k]
             existing == {run.list[i].id : i \in DOMAIN run.list}
                             \cap DOMAIN before.CryptoCurrency
             stored == store_crypto_data(before.CryptoCurrency, before.CryptoData,
                                         run.list, existing, run.at, 0, 0)
         IN  [CryptoCurrency |-> stored.CryptoCurrency,
              CryptoData |-> stored.CryptoData,
              DashboardUpdate |->
                  log_dashboard_update(before.DashboardUpdate, "success", None, TRUE,
                                       NoData, run.at + 1, 0, TRUE)]

InitMaintenance ==
    /\ \E past \in Pasts :
        LET left == Replay(past, Len(past))
        IN  /\ CryptoCurrency = left.CryptoCurrency
            /\ CryptoData = left.CryptoData
            /\ DashboardUpdate = left.DashboardUpdate
            /\ clock = Now(past)
            /\ lastStored =
                IF past = NoPast
                THEN [none |-> TRUE, list |-> <<>>, timestamp |-> 0]
                ELSE [none |-> FALSE, list |-> past[Len(past)].list,
                      timestamp |-> past[Len(past)].at]
            /\ groups = {[by |-> 0, timestamp |-> past[k].at, n |-> Len(past[k].list)] :
                            k \in DOMAIN past}
    /\ pc = "idle"
    /\ crypto_data = NoData
    /\ timestamp = 0
    /\ existing_cryptos = {}
    /\ storage_success = FALSE
    /\ email_sent = FALSE
    /\ result = NoResult
    /\ calls = <<>>
    /\ runs = 0
    /\ failed_row = 0
    /\ log_returned = FALSE
    /\ rpc = "idle"
    /\ refresh_data = NoData
    /\ refresh_timestamp = 0
    /\ refresh_existing = {}
    /\ response = NoResponse
    /\ refresh_calls = <<>>
    /\ refreshes = 0
    /\ refresh_stored = FALSE
    /\ jumps = 0
    /\ logs = 0
    /\ purges = 0
    /\ purged = [days |-> 0, now |-> 0, ok |-> FALSE]
    /\ provider = NoAnswer
    /\ fetch_result = NotFetched

\* `timestamp < cutoff_date`
ExpiredOrAtCutoff(ts, cutoff_date) == ts <= cutoff_date
Expired(ts, cutoff_date) == ts < cutoff_date

\* cleanup_old_data(days_to_keep) called at `now`: [CryptoData, DashboardUpdate];
\* ok is whether the deletes and the commit went through, the rollback undoing
\* both deletes otherwise.
cleanup_old_data(cd, du, days_to_keep, now, ok) ==
    LET cutoff_date == now - days_to_keep * Day
    IN  IF ok
        THEN [CryptoData |-> SelectSeq(cd, LAMBDA row : ~Expired(row.timestamp, cutoff_date)),
              DashboardUpdate |->
                  SelectSeq(du, LAMBDA row : ~Expired(row.update_timestamp, cutoff_date))]
        ELSE [CryptoData |-> cd, DashboardUpdate |-> du]

\* the calls and idle periods so far
CallsSoFar == runs + logs + jumps + purges

\* one whole store_crypto_data(crypto_list) call
StoreCall ==
    /\ CallsSoFar < MaxCalls
    /\ \E crypto_list \in Batches \ {<<>>} : \E failAt \in 0..Len(crypto_list) :
        LET existing == {crypto_list[i].id : i \in DOMAIN crypto_list} \cap DOMAIN CryptoCurrency
            r == store_crypto_data(CryptoCurrency, CryptoData, crypto_list,
                                   existing, utcnow, runs + 1, failAt)
        IN  /\ CryptoCurrency' = r.CryptoCurrency
            /\ CryptoData' = r.CryptoData
            /\ lastStored' =
                IF r.failed = 0
                THEN [none |-> FALSE, list |-> crypto_list, timestamp |-> utcnow]
                ELSE lastStored
            /\ groups' =
                IF r.failed = 0
                THEN groups \cup {[by |-> runs + 1, timestamp |-> utcnow,
                                   n |-> Len(crypto_list)]}
                ELSE groups
    /\ runs' = runs + 1
    /\ clock' = utcnow
    /\ UNCHANGED <<DashboardUpdate, pc, locals, result, calls, failed_row,
                   log_returned, refresh, maintenance, fetcher>>

\* one log_dashboard_update(status, ...) call, with a message when the status
\* is "failed", as the handler calls it
LogCall ==
    /\ CallsSoFar < MaxCalls
    /\ \E status \in {"success", "failed"} : \E ok \in BOOLEAN :
        DashboardUpdate' = log_dashboard_update(
            DashboardUpdate, status,
            IF status = "failed" THEN FETCH_ERROR_MSG ELSE None,
            FALSE, NoData, utcnow, runs, ok)
    /\ logs' = logs + 1
    /\ clock' = utcnow
    /\ UNCHANGED <<CryptoCurrency, CryptoData, lastStored, groups, scheduled,
                   refresh, jumps, purges, purged, fetcher>>

\* nothing is called for a while
TimePasses ==
    /\ CallsSoFar < MaxCalls
    /\ \E d \in Jumps : clock' = clock + d
    /\ jumps' = jumps + 1
    /\ UNCHANGED <<db, lastStored, groups, scheduled, refresh, logs, purges, purged,
                   fetcher>>

\* one cleanup_old_data(days_to_keep) call
Cleanup ==
    /\ CallsSoFar < MaxCalls
    /\ \E days_to_keep \in KeepDays : \E ok \in BOOLEAN :
        LET r == cleanup_old_data(CryptoData, DashboardUpdate, days_to_keep, utcnow, ok)
        IN  /\ CryptoData' = r.CryptoData
            /\ DashboardUpdate' = r.DashboardUpdate
            /\ purged' = [days |-> days_to_keep, now |-> utcnow, ok |-> ok]
    /\ purges' = purges + 1
    /\ clock' = utcnow
    /\ UNCHANGED <<CryptoCurrency, lastStored, groups, scheduled, refresh, jumps, logs,
                   fetcher>>

NextMaintenance ==
    \/ StoreCall
    \/ LogCall
    \/ TimePasses
    \/ Cleanup

SpecMaintenance == InitMaintenance /\ [][NextMaintenance]_vars

----------------------------------------------------------------------------
(* Provider client: CryptoService.fetch_top_10_cryptocurrencies, applied to  *)
(* what the provider answers to GET /coins/markets with per_page = 10        *)

\* how many coins of one answer carry a null 24h change, and how many lack a key
MaxOddCoins == 1

\* the keys the loop reads from every coin
CoinKeys ==
    {"id", "name", "symbol", "current_price", "market_cap", "total_volume",
     "price_change_percentage_24h", "market_cap_rank", "image"}

\* the k-th coin of an answer; the provider writes symbols in lower case and
\* gives no 24h change for a coin without trades
Coin(k, null_change, missing) ==
    [keys |-> CoinKeys \ missing,
     id |-> k, name |-> <<"name", k>>, symbol |-> <<"sym", k>>,
     current_price |-> 10 * k, market_cap |-> 100 * k, total_volume |-> 7 * k,
     price_change_percentage_24h |-> [null |-> null_change, value |-> k - 2],
     market_cap_rank |-> k, image |-> <<"image", k>>]

SubsetsUpTo(S, n) == {T \in SUBSET S : Cardinality(T) <= n}

\* the request fails (connection, timeout, HTTP status), or the provider
\* answers a list of at most per_page coins
RequestError == [error |-> TRUE, data |-> <<>>]
Answer(n, nulls, broken) ==
    [error |-> FALSE,
     data |-> [k \in 1..n |->
                 Coin(k, k \in nulls, IF k \in broken THEN {"image"} ELSE {})]]
ProviderAnswers ==
    {RequestError} \cup
    UNION {{Answer(n, nulls, broken) :
                nulls \in SubsetsUpTo(1..n, MaxOddCoins),
                broken \in SubsetsUpTo(1..n, MaxOddCoins)} : n \in 0..TopN}

\* str.upper()
Upper(s) == IF s[1] = "sym" THEN <<"SYM">> \o Tail(s) ELSE s
\* `x or 0`: None and 0 are falsy
OrZero(x) == IF x.null \/ x.value = 0 THEN 0 ELSE x.value

\* the body of the loop over the coins
Normalized(coin) ==
    [id |-> coin.id, name |-> coin.name, symbol |-> Upper(coin.symbol),
     price_usd |-> coin.current_price, market_cap_usd |-> coin.market_cap,
     volume_24h_usd |-> coin.total_volume,
     price_change_24h_percent |-> OrZero(coin.price_change_percentage_24h),
     market_cap_rank |-> coin.market_cap_rank, image_url |-> coin.image]

\* a missing key raises in the loop and the whole call returns None
SkipsNoCoin(data) == TRUE
AllCoinsParse(data) == \A k \in DOMAIN data : CoinKeys \subseteq data[k].keys

fetch_top_10_cryptocurrencies(answer) ==
    IF answer.error THEN NoData
    ELSE IF ~AllCoinsParse(answer.data) THEN NoData
    ELSE SomeData([k \in DOMAIN answer.data |-> Normalized(answer.data[k])])

InitFetcher ==
    /\ CryptoCurrency = <<>>
    /\ CryptoData = <<>>
    /\ DashboardUpdate = <<>>
    /\ clock = 0
    /\ pc = "idle"
    /\ crypto_data = NoData
    /\ timestamp = 0
    /\ existing_cryptos = {}
    /\ storage_success = FALSE
    /\ email_sent = FALSE
    /\ result = NoResult
    /\ calls = <<>>
    /\ runs = 0
    /\ failed_row = 0
    /\ log_returned = FALSE
    /\ lastStored = [none |-> TRUE, list |-> <<>>, timestamp |-> 0]
    /\ groups = {}
    /\ rpc = "idle"
    /\ refresh_data = NoData
    /\ refresh_timestamp = 0
    /\ refresh_existing = {}
    /\ response = NoResponse
    /\ refresh_calls = <<>>
    /\ refreshes = 0
    /\ refresh_stored = FALSE
    /\ jumps = 0
    /\ logs = 0
    /\ purges = 0
    /\ purged = [days |-> 0, now |-> 0, ok |-> FALSE]
    /\ provider \in ProviderAnswers
    /\ fetch_result = NotFetched

FetchCall ==
    /\ ~fetch_result.returned
    /\ fetch_result' = [returned |-> TRUE, value |-> fetch_top_10_cryptocurrencies(provider)]
    /\ UNCHANGED <<db, clock, lastStored, groups, scheduled, refresh, maintenance,
                   provider>>

NextFetcher == FetchCall

SpecFetcher == InitFetcher /\ [][NextFetcher]_vars

----------------------------------------------------------------------------
(* Vocabulary of the properties *)

Range(f) == {f[i] : i \in DOMAIN f}
Min(a, b) == IF a < b THEN a ELSE b

\* the rows of a table a run wrote
RowsBy(table, r) == SelectSeq(table, LAMBDA row : row.by = r)

\* a list of ten quotes with distinct ids and distinct ranks
ValidTen(l) ==
    /\ Len(l) = TopN
    /\ \A i, j \in DOMAIN l :
        i # j => l[i].id # l[j].id /\ l[i].market_cap_rank # l[j].market_cap_rank

\* {id, rank, price, marketCap} of a returned row, of a quote as fetched, and
\* of a quote as the columns hold it
RowFields(v) ==
    [id |-> v.crypto_id, rank |-> v.market_cap_rank,
     price |-> v.price_usd, marketCap |-> v.market_cap_usd]
QuoteFields(q) ==
    [id |-> q.id, rank |-> q.market_cap_rank,
     price |-> q.price_usd, marketCap |-> q.market_cap_usd]
StoredFields(q) ==
    [id |-> q.id, rank |-> q.market_cap_rank,
     price |-> Numeric(q.price_usd), marketCap |-> Numeric(q.market_cap_usd)]

AscendingByRank(top) ==
    \A i \in 1..(Len(top) - 1) : top[i].market_cap_rank < top[i + 1].market_cap_rank

\* the rows of dashboard_updates a manual refresh wrote
RefreshUpdates == SelectSeq(DashboardUpdate, LAMBDA row : row.by < 0)
\* the calls of a request to the notifier
Notifications(cs) == SelectSeq(cs, LAMBDA c : c \in {"sendSummary", "sendErrorAlert"})

\* the state right after a store_crypto_data call that returned True
JustStored == pc = "notify"

----------------------------------------------------------------------------
(* C1: a store_crypto_data call that fails at some row k returns failure and *)
(* leaves cryptocurrencies and crypto_data exactly as they were, so that     *)
(* get_latest_top_10 still returns what it returned before the call.         *)
C1_StoreAllOrNothing ==
    /\ [][(pc = "store_commit" /\ failed_row' # 0) =>
             /\ storage_success' = FALSE
             /\ CryptoCurrency' = CryptoCurrency
             /\ CryptoData' = CryptoData]_vars
    /\ [](failed_row # 0 =>
             /\ \A id \in DOMAIN CryptoCurrency : CryptoCurrency[id].by # runs
             /\ \A row \in Range(CryptoData) : row.by # runs
             /\ \A row \in Range(LatestRows(CryptoCurrency, CryptoData)) : row.by < runs)

\* a store of ten quotes failed at row 7 while an earlier run's group is stored
C1_Witness ==
    /\ pc = "log_store_failed"
    /\ failed_row = 7
    /\ Len(crypto_data.list) = TopN
    /\ LatestTop # <<>>

(* C2 as stated: after a successful store of ten valid quotes                *)
(* get_latest_top_10 returns ten rows, ascending by rank, whose {id, rank,   *)
(* price, marketCap} are exactly those of the quotes.                        *)
C2_ExactRoundTrip ==
    (JustStored /\ ValidTen(crypto_data.list)) =>
        /\ Len(LatestTop) = TopN
        /\ AscendingByRank(LatestTop)
        /\ {RowFields(v) : v \in Range(LatestTop)}
             = {QuoteFields(q) : q \in Range(crypto_data.list)}

(* C2 amended: after a successful store of ten valid quotes                  *)
(* get_latest_top_10 returns ten rows, ascending by rank, with the ids and   *)
(* ranks of the quotes and with price and market cap as the Numeric columns  *)
(* hold them (rounded to 8 and to 2 decimals), whatever was stored before.   *)
C2_RoundTripAsStored ==
    (JustStored /\ ValidTen(crypto_data.list)) =>
        /\ Len(LatestTop) = TopN
        /\ AscendingByRank(LatestTop)
        /\ {RowFields(v) : v \in Range(LatestTop)}
             = {StoredFields(q) : q \in Range(crypto_data.list)}

\* ten quotes with sub-scale amounts were stored on top of an earlier group
C2_Witness ==
    /\ JustStored
    /\ ValidTen(crypto_data.list)
    /\ \E q \in Range(crypto_data.list) : Numeric(q.price_usd) # q.price_usd
    /\ Len(CryptoData) > TopN

(* C3: the groups of two runs never share a timestamp, and the rows          *)
(* get_latest_top_10 selects were all written by one run.                    *)
C3_OneGroupOnly ==
    /\ \A i, j \in DOMAIN CryptoData :
        CryptoData[i].by # CryptoData[j].by
            => CryptoData[i].timestamp # CryptoData[j].timestamp
    /\ \A r1, r2 \in Range(LatestRows(CryptoCurrency, CryptoData)) : r1.by = r2.by

\* two runs have stored a group each
C3_Witness ==
    /\ \E i, j \in DOMAIN CryptoData : CryptoData[i].by # CryptoData[j].by
    /\ Len(LatestTop) = TopN


\* the run has returned after fetch_top_10_cryptocurrencies returned None
FetchFailedRun == pc = "done" /\ calls # <<>> /\ crypto_data.none

\* the run has returned after store_crypto_data returned False
StoreFailedRun == pc = "done" /\ "storeSnapshot" \in Range(calls) /\ ~storage_success

\* the run has returned after a store that succeeded and an email that did not go
NotifyFailedRun ==
    pc = "done" /\ "sendSummary" \in Range(calls) /\ storage_success /\ ~email_sent

\* the dashboard_updates rows of the current run
MyUpdates == RowsBy(DashboardUpdate, runs)

Occurrences(seq, x) == Cardinality({i \in DOMAIN seq : seq[i] = x})

\* what a failed run leaves besides the number of its rows
FailedRunOutcome(msg) ==
    /\ \A row \in Range(MyUpdates) :
        /\ row.status = "failed"
        /\ row.error_message = msg
        /\ row.error_message # None
        /\ row.email_sent = FALSE
    /\ "sendSummary" \notin Range(calls)
    /\ result.statusCode = 500
    /\ result.status = "error"

\* nothing in cryptocurrencies or crypto_data was written by the current run
WroteNoMarketData ==
    /\ \A id \in DOMAIN CryptoCurrency : CryptoCurrency[id].by # runs
    /\ \A row \in Range(CryptoData) : row.by # runs

(* C4 as stated: a run whose fetch fails appends exactly one dashboard_updates *)
(* row, status "failed", a message, email_sent false; it writes no market     *)
(* data, never calls store or the daily email, and returns an error.          *)
C4_FetchFailureOneRow ==
    FetchFailedRun =>
        /\ Len(MyUpdates) = 1
        /\ FailedRunOutcome(FETCH_ERROR_MSG)
        /\ WroteNoMarketData
        /\ "storeSnapshot" \notin Range(calls)

(* C4 amended: the same, except that the row is appended only when            *)
(* log_dashboard_update itself succeeds: one row when its write commits, none *)
(* when the write raises (the handler goes on and still returns the error).   *)
C4_FetchFailureAtMostOneRow ==
    FetchFailedRun =>
        /\ Len(MyUpdates) = (IF log_returned THEN 1 ELSE 0)
        /\ FailedRunOutcome(FETCH_ERROR_MSG)
        /\ WroteNoMarketData
        /\ "storeSnapshot" \notin Range(calls)

\* a fetch failed after an earlier run stored a group, and the failure was logged
C4_Witness ==
    /\ FetchFailedRun
    /\ log_returned
    /\ Len(MyUpdates) = 1
    /\ CryptoData # <<>>

(* C5 as stated: a run whose store fails attempts one error alert, appends    *)
(* exactly one row with status "failed", email_sent false and a message other *)
(* than the fetch failure's, never sends the daily email and returns an error.*)
C5_StoreFailureOneRow ==
    StoreFailedRun =>
        /\ Len(MyUpdates) = 1
        /\ FailedRunOutcome(STORE_ERROR_MSG)
        /\ STORE_ERROR_MSG # FETCH_ERROR_MSG
        /\ Occurrences(calls, "sendErrorAlert") = 1

(* C5 amended: the same, except that the row is appended only when            *)
(* log_dashboard_update itself succeeds: one row when its write commits, none *)
(* when the write raises.                                                     *)
C5_StoreFailureAtMostOneRow ==
    StoreFailedRun =>
        /\ Len(MyUpdates) = (IF log_returned THEN 1 ELSE 0)
        /\ FailedRunOutcome(STORE_ERROR_MSG)
        /\ STORE_ERROR_MSG # FETCH_ERROR_MSG
        /\ Occurrences(calls, "sendErrorAlert") = 1

\* a store failed at a row past the first and the failure was logged
C5_Witness ==
    /\ StoreFailedRun
    /\ failed_row > 1
    /\ log_returned
    /\ Len(MyUpdates) = 1

\* the current run's group is what get_latest_top_10 returns
ServesMyGroup ==
    LET rows == LatestRows(CryptoCurrency, CryptoData)
    IN  /\ Len(rows) = Min(Len(crypto_data.list), TopN)
        /\ \A row \in Range(rows) :
            /\ row.by = runs
            /\ \E q \in Range(crypto_data.list) : RowFields(row) = StoredFields(q)

(* C6 as stated: a run whose fetch and store succeed and whose email fails    *)
(* appends exactly one row, status "success" and email_sent false, returns    *)
(* success, and get_latest_top_10 returns the group the run stored.           *)
C6_NotifyFailureOneRow ==
    NotifyFailedRun =>
        /\ Len(MyUpdates) = 1
        /\ \A row \in Range(MyUpdates) : row.status = "success" /\ row.email_sent = FALSE
        /\ result.statusCode = 200
        /\ result.status = "success"
        /\ ServesMyGroup

(* C6 amended: the same, except that the row is appended only when            *)
(* log_dashboard_update itself succeeds: one row when its write commits, none *)
(* when the write raises; the stored group stays either way.                  *)
C6_NotifyFailureAtMostOneRow ==
    NotifyFailedRun =>
        /\ Len(MyUpdates) = (IF log_returned THEN 1 ELSE 0)
        /\ \A row \in Range(MyUpdates) : row.status = "success" /\ row.email_sent = FALSE
        /\ result.statusCode = 200
        /\ result.status = "success"
        /\ ServesMyGroup

\* the email failed in a run that stored over an earlier group, and was logged
C6_Witness ==
    /\ NotifyFailedRun
    /\ Len(MyUpdates) = 1
    /\ Len(CryptoData) > Len(crypto_data.list)


(* C7: get_latest_top_10 returns the group of the last store that committed,  *)
(* in every state of every sequence of runs: nothing when no store has        *)
(* committed, and otherwise that store's quotes (at most ten, by rank, at its *)
(* timestamp), whatever runs failed at fetch or at store since.               *)
C7_ServesLastCommittedStore ==
    IF lastStored.none
    THEN LatestTop = <<>>
    ELSE /\ Len(LatestTop) = Min(Len(lastStored.list), TopN)
         /\ AscendingByRank(LatestTop)
         /\ \A v \in Range(LatestTop) :
             /\ v.timestamp = lastStored.timestamp
             /\ \E q \in Range(lastStored.list) :
                 /\ RowFields(v) = StoredFields(q)
                 /\ v.name = q.name
                 /\ v.symbol = q.symbol

\* the second run failed at a row of its store; the first run's group is served
C7_Witness ==
    /\ StoreFailedRun
    /\ failed_row > 1
    /\ runs = 2
    /\ ~lastStored.none
    /\ LatestTop # <<>>
    /\ \A row \in Range(LatestRows(CryptoCurrency, CryptoData)) : row.by = 1

(* C8 as stated: in every run the dashboard_updates write is the last         *)
(* collaborator call, and no notifier call follows it.                        *)
C8_LogRunLast ==
    (pc = "done" /\ calls # <<>>) =>
        /\ calls[Len(calls)] = "logRun"
        /\ \A i, j \in DOMAIN calls :
            (calls[i] = "logRun" /\ calls[j] \in {"sendErrorAlert", "sendSummary"})
                => j < i

(* C8 amended: on the success path the dashboard_updates write is the last    *)
(* collaborator call, after the daily email; on a fetch or store failure the  *)
(* handler writes the dashboard_updates row first and sends the error alert   *)
(* afterwards, so the alert is the last call of a failed run.                 *)
C8_CallOrder ==
    (pc = "done" /\ calls # <<>>) =>
        calls = (IF Falsy(crypto_data)
                 THEN <<"fetchTop", "logRun", "sendErrorAlert">>
                 ELSE IF ~storage_success
                 THEN <<"fetchTop", "storeSnapshot", "logRun", "sendErrorAlert">>
                 ELSE <<"fetchTop", "storeSnapshot", "sendSummary", "logRun">>)

\* a run whose store failed has returned
C8_Witness ==
    /\ pc = "done"
    /\ calls = <<"fetchTop", "storeSnapshot", "logRun", "sendErrorAlert">>

(* C9: the daily email is sent only after store_crypto_data of the same run   *)
(* has committed every quote of the run, never after a failed fetch or store. *)
C9_SummaryOnlyAfterCommit ==
    "sendSummary" \in Range(calls) =>
        /\ ~Falsy(crypto_data)
        /\ storage_success
        /\ failed_row = 0
        /\ \E i, j \in DOMAIN calls :
            i < j /\ calls[i] = "storeSnapshot" /\ calls[j] = "sendSummary"
        /\ Len(RowsBy(CryptoData, runs)) = Len(crypto_data.list)

\* the daily email of a run has just been attempted
C9_Witness ==
    /\ pc = "log_success"
    /\ "sendSummary" \in Range(calls)
    /\ Len(RowsBy(CryptoData, runs)) = TopN

(* C10: the dashboard_updates row of a successful run has no error message,   *)
(* email_sent as the daily email returned it, and top_10_data holding the     *)
(* serialized quotes of the run, never null.                                  *)
C10_SuccessRowKeepsPayload ==
    (pc = "done" /\ result.statusCode = 200) =>
        \A row \in Range(MyUpdates) :
            /\ row.status = "success"
            /\ row.error_message = None
            /\ row.email_sent = email_sent
            /\ row.top_10_data = [null |-> FALSE, json |-> crypto_data.list]

C12_GroupsAreWholeBatches ==
    /\ \A row \in Range(CryptoData) :
        \E g \in groups : g.by = row.by /\ g.timestamp = row.timestamp
    /\ \A g, h \in groups : g.timestamp = h.timestamp => g = h
    /\ \A g \in groups :
        Cardinality({i \in DOMAIN CryptoData : CryptoData[i].timestamp = g.timestamp}) = g.n
    /\ groups # {} =>
        LET g == CHOOSE g \in groups : \A h \in groups : h.timestamp <= g.timestamp
            rows == LatestRows(CryptoCurrency, CryptoData)
        IN  /\ Len(rows) = Min(g.n, TopN)
            /\ \A row \in Range(rows) : row.timestamp = g.timestamp /\ row.by = g.by
            /\ Len(LatestTop) = Len(rows)

\* a scheduled run read its timestamp before a manual refresh did and
\* committed after it: the group written last is not the latest one
C12_Witness ==
    /\ CryptoData # <<>>
    /\ \E g, h \in groups :
        /\ g.by > 0
        /\ h.by < 0
        /\ g.timestamp < h.timestamp
        /\ CryptoData[Len(CryptoData)].by = g.by
        /\ \A row \in Range(LatestRows(CryptoCurrency, CryptoData)) : row.by = h.by

\* the status a dashboard_updates row must carry for the result a run returns
StatusFor(res) == IF res.statusCode = 200 THEN "success" ELSE "failed"

(* C13 as stated: every scheduled run that has returned appended exactly one  *)
(* dashboard_updates row, and the status of the row agrees with the outcome   *)
(* the run reports.                                                           *)
C13_OneRowPerRun ==
    pc = "done" =>
        /\ Len(MyUpdates) = 1
        /\ \A row \in Range(MyUpdates) : row.status = StatusFor(result)

(* C13, as the code has it: a scheduled run that has returned appended at     *)
(* most one dashboard_updates row: one when it reached log_dashboard_update   *)
(* and the write committed, none when the write failed or when an unexpected  *)
(* exception ended the run before it logged; the status of a row agrees with  *)
(* the outcome the run reports.                                               *)
C13_AtMostOneRowPerRun ==
    pc = "done" =>
        /\ Len(MyUpdates) = (IF log_returned THEN 1 ELSE 0)
        /\ log_returned => "logRun" \in Range(calls)
        /\ \A row \in Range(MyUpdates) : row.status = StatusFor(result)
        /\ result.statusCode \in {200, 500}

\* a second run has returned with its row written, after a first run that
\* left a row of the other status
C13_Witness ==
    /\ pc = "done"
    /\ log_returned
    /\ Len(MyUpdates) = 1
    /\ Len(DashboardUpdate) = 2
    /\ DashboardUpdate[1].status # DashboardUpdate[2].status

(* C14: in every reachable state, after any sequence of store_crypto_data     *)
(* calls, committed or failed, and cleanup_old_data calls, the crypto_id of   *)
(* every crypto_data row is the id of an existing cryptocurrencies row.       *)
C14_SnapshotsReferenceAssets ==
    \A row \in Range(CryptoData) : row.crypto_id \in DOMAIN CryptoCurrency

\* a store call has failed and a cleanup has removed all but the newest group
C14_Witness ==
    /\ runs = 1
    /\ \A g \in groups : g.by = 0
    /\ purged.ok
    /\ Len(CryptoData) = Len(BatchShort)
    /\ Cardinality(DOMAIN CryptoCurrency) > TopN

\* the crypto_data rows tagged `by` are one row per quote of crypto_list, in
\* list order, all with timestamp ts
OneRowPerQuote(by, crypto_list, ts) ==
    LET mine == RowsBy(CryptoData, by)
    IN  /\ Len(mine) = Len(crypto_list)
        /\ \A i \in DOMAIN mine :
            /\ mine[i].crypto_id = crypto_list[i].id
            /\ mine[i].timestamp = ts

(* C15: every store_crypto_data call that returns True has inserted exactly   *)
(* one crypto_data row per quote of its input, all with the same timestamp,   *)
(* which the call reads once, at its start, whatever other clock reads happen *)
(* before it commits.                                                         *)
C15_OneSnapshotPerQuoteOneTimestamp ==
    /\ [](JustStored => OneRowPerQuote(runs, crypto_data.list, timestamp))
    /\ []((rpc = "done" /\ refresh_stored) =>
              OneRowPerQuote(-refreshes, refresh_data.list, refresh_timestamp))
    /\ [][(pc = "store_begin" /\ pc' # pc) => timestamp' = clock + 1]_vars
    /\ [][(pc = "store_commit") => timestamp' = timestamp]_vars
    /\ [][(rpc = "store_begin" /\ rpc' # rpc) => refresh_timestamp' = clock + 1]_vars
    /\ [][(rpc = "store_commit") => refresh_timestamp' = refresh_timestamp]_vars

\* a scheduled store has committed ten rows with the timestamp it read before
\* a manual refresh read the clock
C15_Witness ==
    /\ JustStored
    /\ Len(RowsBy(CryptoData, runs)) = TopN
    /\ rpc = "store_commit"
    /\ timestamp < refresh_timestamp

(* C16: what the notifier and log_dashboard_update return never changes the   *)
(* outcome of a scheduled run: the run reports success exactly when the fetch *)
(* returned quotes and the store committed them, and a log_dashboard_update   *)
(* that fails leaves the rows the run stored in place.                        *)
C16_OutcomeIgnoresNotifierAndLog ==
    pc = "done" =>
        /\ result.statusCode = 200 <=>
               (~crypto_data.none /\ "storeSnapshot" \in Range(calls) /\ storage_success)
        /\ result.statusCode # 200 => result.statusCode = 500
        /\ storage_success =>
            /\ OneRowPerQuote(runs, crypto_data.list, timestamp)
            /\ ServesMyGroup

\* a run has reported success although neither the email went out nor the
\* dashboard_updates row was written
C16_Witness ==
    /\ pc = "done"
    /\ result.statusCode = 200
    /\ ~email_sent
    /\ ~log_returned
    /\ MyUpdates = <<>>
    /\ Len(RowsBy(CryptoData, runs)) = TopN

\* the positions lambda_handler can move to from a position: every path from
\* a position other than "idle" ends in "done" within five steps
Successors(at) ==
    CASE at = "idle" -> {"store_begin", "log_fetch_failed", "done"}
      [] at = "store_begin" -> {"store_commit"}
      [] at = "store_commit" -> {"notify", "log_store_failed"}
      [] at = "notify" -> {"log_success"}
      [] at = "log_success" -> {"done"}
      [] at = "log_fetch_failed" -> {"alert_fetch_failed"}
      [] at = "alert_fetch_failed" -> {"done"}
      [] at = "log_store_failed" -> {"alert_store_failed"}
      [] at = "alert_store_failed" -> {"done"}
      [] at = "done" -> {"idle"}

NoRetries ==
    /\ \A c \in {"fetchTop", "storeSnapshot", "logRun"} : Occurrences(calls, c) <= 1
    /\ Len(Notifications(calls)) <= 1

(* C17 as stated: every run that has returned went through fetch, store,      *)
(* notify and log, or left through the fetch failure or the store failure     *)
(* exit.                                                                      *)
C17_TwoFailureExits ==
    pc = "done" =>
        Range(calls) \in {{"fetchTop", "storeSnapshot", "sendSummary", "logRun"},
                          {"fetchTop", "logRun", "sendErrorAlert"},
                          {"fetchTop", "storeSnapshot", "logRun", "sendErrorAlert"}}

(* C17, as the code has it: a run goes from fetch to store to the daily email *)
(* to the log and returns, or leaves through the fetch failure exit, the      *)
(* store failure exit, or the catch-all exit of the handler, which returns an *)
(* error without any collaborator call; it calls each of fetch, store, the    *)
(* notifier and the log at most once, and it always returns a result: every  *)
(* step moves it forward on a loop-free path, and a step is possible at every *)
(* position short of the return (at the commit of the store, the call has the *)
(* list and the timestamp it works on).                                       *)
C17_RunsTerminateWithoutRetries ==
    /\ [][pc' # pc => pc' \in Successors(pc)]_vars
    /\ []NoRetries
    /\ [](pc = "done" => result.statusCode \in {200, 500})
    /\ [](pc = "done" =>
              \/ Range(calls) \in {{"fetchTop", "storeSnapshot", "sendSummary", "logRun"},
                                   {"fetchTop", "logRun", "sendErrorAlert"},
                                   {"fetchTop", "storeSnapshot", "logRun", "sendErrorAlert"}}
              \/ calls = <<>> /\ result.message = "Unexpected error in Lambda function")
    /\ [](pc \notin {"idle", "done", "store_commit"} => ENABLED Next)
    /\ [](pc = "store_commit" => ~Falsy(crypto_data) /\ timestamp = clock)

\* the last run has returned through the store failure exit, its log write
\* having failed too
C17_Witness ==
    /\ runs = MaxRuns
    /\ pc = "done"
    /\ ~log_returned
    /\ calls = <<"fetchTop", "storeSnapshot", "logRun", "sendErrorAlert">>

\* get_last_update returns None on an empty table and the fields of a row no
\* other row is newer than otherwise
LastUpdateIsNewest ==
    LET last == get_last_update(DashboardUpdate)
    IN  /\ last.none <=> DashboardUpdate = <<>>
        /\ ~last.none =>
            /\ \E row \in Range(DashboardUpdate) :
                /\ row.update_timestamp = last.timestamp
                /\ row.status = last.status
                /\ row.error_message = last.error_message
                /\ row.email_sent = last.email_sent
            /\ \A row \in Range(DashboardUpdate) : row.update_timestamp <= last.timestamp

(* C18 as stated: get_last_update returns None when dashboard_updates is      *)
(* empty and the row with the greatest update_timestamp otherwise; right      *)
(* after a successful run, no other run being in flight, its status is        *)
(* "success".                                                                 *)
C18_LastRunOfSuccessIsSuccess ==
    /\ LastUpdateIsNewest
    /\ (pc = "done" /\ result.statusCode = 200) =>
        get_last_update(DashboardUpdate).status = "success"

(* C18, as the code has it: get_last_update returns None when                 *)
(* dashboard_updates is empty and the row with the greatest update_timestamp  *)
(* otherwise; right after a successful run whose log_dashboard_update write   *)
(* committed it returns the row of that run, with status "success".           *)
C18_LastRunOfLoggedSuccessIsSuccess ==
    /\ LastUpdateIsNewest
    /\ (pc = "done" /\ result.statusCode = 200 /\ log_returned) =>
        LET last == get_last_update(DashboardUpdate)
        IN  /\ ~last.none
            /\ last.status = "success"
            /\ last.email_sent = email_sent
            /\ last.timestamp = clock
            /\ MyUpdates[1].update_timestamp = last.timestamp

\* a successful run has logged after an earlier run logged a failure
C18_Witness ==
    /\ pc = "done"
    /\ result.statusCode = 200
    /\ log_returned
    /\ Len(DashboardUpdate) = 2
    /\ DashboardUpdate[1].status = "failed"
    /\ get_last_update(DashboardUpdate).status = "success"

(* C19: cryptocurrencies has one row per id, upserted: after a store call     *)
(* that committed, the row of every quote id carries the name and symbol of   *)
(* the quote last stored for that id (a row changes only in a committed store *)
(* of a quote with its id), and no store, log or cleanup call ever deletes a  *)
(* cryptocurrencies row.                                                      *)
C19_AssetsUpsertedNeverDeleted ==
    /\ [](~lastStored.none =>
             \A q \in Range(lastStored.list) :
                 /\ q.id \in DOMAIN CryptoCurrency
                 /\ CryptoCurrency[q.id].name = q.name
                 /\ CryptoCurrency[q.id].symbol = q.symbol)
    /\ [][\A id \in DOMAIN CryptoCurrency :
             /\ id \in DOMAIN CryptoCurrency'
             /\ CryptoCurrency'[id] # CryptoCurrency[id] =>
                 /\ lastStored' # lastStored
                 /\ \E q \in Range(lastStored'.list) : q.id = id]_vars

\* BatchB has been stored over the rows of three earlier runs and a cleanup
\* has run: the ids of BatchB carry its names, id 1 still that of BatchC
C19_Witness ==
    /\ lastStored.list = BatchB
    /\ purged.ok
    /\ Cardinality(DOMAIN CryptoCurrency) = TopN + Len(BatchShort)
    /\ CryptoCurrency[1].name = BatchC[1].name
    /\ CryptoCurrency[2].name = BatchB[1].name
    /\ CryptoCurrency[2].name # BatchC[2].name

\* the cutoff_date of the last cleanup_old_data call
Cutoff(call) == call.now - call.days * Day
\* the age in whole days, at the last cleanup_old_data call, of a timestamp
AgeDays(ts) == (purged.now - ts) \div Day

(* C20: cleanup_old_data(d) deletes exactly the crypto_data and               *)
(* dashboard_updates rows whose timestamp is strictly older than now minus d  *)
(* days, and leaves every newer row and every cryptocurrencies row as it was  *)
(* (a call that fails deletes nothing); so of groups aged 5, 35 and 65 days a *)
(* cleanup with d = 30 leaves only the 5-day one.                             *)
C20_CleanupDeletesExactlyTheExpired ==
    /\ [][purges' = purges + 1 =>
             /\ purged'.now = clock + 1
             /\ CryptoCurrency' = CryptoCurrency
             /\ IF purged'.ok
                THEN /\ CryptoData' =
                         SelectSeq(CryptoData,
                                   LAMBDA row : row.timestamp >= (clock + 1) - purged'.days * Day)
                     /\ DashboardUpdate' =
                         SelectSeq(DashboardUpdate,
                                   LAMBDA row : row.update_timestamp >= (clock + 1) - purged'.days * Day)
                ELSE /\ CryptoData' = CryptoData
                     /\ DashboardUpdate' = DashboardUpdate]_vars
    /\ [](purged.ok =>
             /\ \A row \in Range(CryptoData) : row.timestamp >= Cutoff(purged)
             /\ \A row \in Range(DashboardUpdate) : row.update_timestamp >= Cutoff(purged))

\* groups aged 65, 35 and 5 days were there when cleanup_old_data(30) ran, and
\* only the rows of the 5-day group are left, with every cryptocurrencies row
C20_Witness ==
    /\ purged.ok
    /\ purged.days = DATA_RETENTION_DAYS
    /\ {AgeDays(g.timestamp) : g \in groups} = {5, 35, 65}
    /\ CryptoData # <<>>
    /\ \A row \in Range(CryptoData) : AgeDays(row.timestamp) = 5
    /\ Len(CryptoData) = Len(BatchShort)
    /\ Len(DashboardUpdate) = 1
    /\ Cardinality(DOMAIN CryptoCurrency) = TopN + Len(BatchShort)

----------------------------------------------------------------------------
\* the call has returned a list (not None)
FetchReturnedList == fetch_result.returned /\ ~fetch_result.value.none
\* the coins of the answer that have every key the loop reads
Parsable(data) == {k \in DOMAIN data : CoinKeys \subseteq data[k].keys}
\* quote k is coin k normalized: same id, name, figures and rank, the symbol
\* in upper case, a null 24h change as 0
QuoteOfCoin(q, coin) ==
    /\ q.id = coin.id /\ q.name = coin.name
    /\ q.symbol = <<"SYM">> \o Tail(coin.symbol)
    /\ q.price_usd = coin.current_price
    /\ q.market_cap_usd = coin.market_cap
    /\ q.volume_24h_usd = coin.total_volume
    /\ q.market_cap_rank = coin.market_cap_rank
    /\ q.image_url = coin.image
    /\ q.price_change_24h_percent =
         IF coin.price_change_percentage_24h.null
         THEN 0 ELSE coin.price_change_percentage_24h.value
InProviderOrder(list, data) ==
    /\ Len(list) = Len(data)
    /\ \A k \in DOMAIN list : QuoteOfCoin(list[k], data[k])

\* C21 as stated: fetch_top_10_cryptocurrencies either fails or returns
\* exactly 10 normalized quotes in provider order, never fewer, a null 24h
\* change being 0 in the quote.
C21_TenQuotesOrNothing ==
    FetchReturnedList =>
        /\ Len(fetch_result.value.list) = TopN
        /\ InProviderOrder(fetch_result.value.list, provider.data)

\* C21 as the code has it: the call returns None exactly when the request
\* failed or some coin of the answer lacks a key; otherwise it returns one
\* normalized quote per coin of the answer, in provider order, with a null 24h
\* change as 0: ten quotes when the provider answered ten coins, fewer (or
\* none) when it answered fewer. No list holds quotes of only a part of the
\* answer.
C21_OneQuotePerCoinOrNothing ==
    fetch_result.returned =>
        /\ fetch_result.value.none <=>
              (provider.error \/ Parsable(provider.data) # DOMAIN provider.data)
        /\ fetch_result.value.none => fetch_result.value.list = <<>>
        /\ ~fetch_result.value.none =>
              /\ InProviderOrder(fetch_result.value.list, provider.data)
              /\ Len(fetch_result.value.list) <= TopN
              /\ Len(provider.data) = TopN => Len(fetch_result.value.list) = TopN

\* ten coins answered, one of them without a 24h change: ten quotes, that one 0
C21_Witness ==
    /\ FetchReturnedList
    /\ Len(fetch_result.value.list) = TopN
    /\ \E k \in DOMAIN provider.data :
          /\ provider.data[k].price_change_percentage_24h.null
          /\ fetch_result.value.list[k].price_change_24h_percent = 0
          /\ fetch_result.value.list[k].symbol = <<"SYM", k>>

----------------------------------------------------------------------------
\* the run has returned the success result
SucceededRun == pc = "done" /\ calls # <<>> /\ result.statusCode = 200

\* C22: the result of a successful run carries the number of crypto_data rows
\* its store_crypto_data call committed (one per fetched quote) and the
\* email_sent flag, which is the value the run passed to log_dashboard_update:
\* every dashboard_updates row of the run carries the same flag, and the row
\* is there when that write went through.
C22_ResultCarriesCountAndFlag ==
    SucceededRun =>
        /\ result.status = "success"
        /\ storage_success
        /\ result.cryptocurrencies_updated = Len(RowsBy(CryptoData, runs))
        /\ result.cryptocurrencies_updated = Len(crypto_data.list)
        /\ result.cryptocurrencies_updated > 0
        /\ result.email_sent = email_sent
        /\ email_sent => "sendSummary" \in Range(calls)
        /\ \A row \in Range(MyUpdates) :
              row.status = "success" /\ row.email_sent = result.email_sent
        /\ Len(MyUpdates) = (IF log_returned THEN 1 ELSE 0)

\* a second run that stored two quotes without its email going out, after a
\* first run that stored ten and sent it
C22_Witness ==
    /\ SucceededRun
    /\ runs = 2
    /\ result.cryptocurrencies_updated = 2
    /\ ~result.email_sent
    /\ Len(MyUpdates) = 1
    /\ \E row \in Range(RowsBy(DashboardUpdate, 1)) : row.email_sent
    /\ Len(RowsBy(CryptoData, 1)) = TopN

----------------------------------------------------------------------------
\* api_refresh has answered the current request
RefreshAnswered == rpc = "done" /\ refreshes > 0

\* C23: api_refresh answers status "success" only when its store_crypto_data
\* call committed the fetched quotes, and answers an error whenever the fetch
\* or the store failed.
C23_RefreshSurfacesStoreFailure ==
    RefreshAnswered =>
        /\ response.status = "success" =>
              /\ "storeSnapshot" \in Range(refresh_calls)
              /\ refresh_stored
              /\ OneRowPerQuote(-refreshes, refresh_data.list, refresh_timestamp)
        /\ (Falsy(refresh_data) \/ ~refresh_stored) => response.status = "error"

----------------------------------------------------------------------------
\* the ids a store call found unknown in its bulk query and another call has
\* inserted since
RaceLost(crypto_list, existing) ==
    {crypto_list[i].id : i \in DOMAIN crypto_list}
        \cap (DOMAIN CryptoCurrency \ existing)

\* the step is the loop and commit of the scheduled run's, or of the manual
\* refresh's, store_crypto_data call
ScheduledCommits == pc = "store_commit" /\ pc' # pc
RefreshCommits == rpc = "store_commit" /\ rpc' # rpc

\* C24: when two store_crypto_data calls that both found an asset id unknown
\* interleave, the call that commits second returns False with the tables as
\* they were, none of its cryptocurrencies or crypto_data rows and no
\* timestamp group committed, and the scheduled run goes on to its store
\* failure branch; the one cryptocurrencies row of the id is the winner's, and
\* every row in either table was written by a call that committed.
C24_RaceLoserRolledBackWhole ==
    /\ [][(ScheduledCommits /\ RaceLost(crypto_data.list, existing_cryptos) # {}) =>
            /\ ~storage_success'
            /\ failed_row' > 0
            /\ pc' = "log_store_failed"
            /\ CryptoCurrency' = CryptoCurrency
            /\ CryptoData' = CryptoData
            /\ groups' = groups]_vars
    /\ [][(RefreshCommits /\ RaceLost(refresh_data.list, refresh_existing) # {}) =>
            /\ ~refresh_stored'
            /\ CryptoCurrency' = CryptoCurrency
            /\ CryptoData' = CryptoData
            /\ groups' = groups]_vars
    /\ [](\A id \in DOMAIN CryptoCurrency :
            \E g \in groups : g.by = CryptoCurrency[id].by)
    /\ [](\A row \in Range(CryptoData) :
            /\ row.crypto_id \in DOMAIN CryptoCurrency
            /\ \E g \in groups : g.by = row.by /\ g.timestamp = row.timestamp)

\* the scheduled run found the ids unknown, the manual refresh inserted them
\* first, and the run is in its store failure branch with nothing written
C24_Witness ==
    /\ pc = "log_store_failed"
    /\ failed_row = 1
    /\ existing_cryptos = {}
    /\ \E id \in RaceLost(crypto_data.list, existing_cryptos) :
          CryptoCurrency[id].by < 0
    /\ WroteNoMarketData
    /\ \A g \in groups : g.by < 0

----------------------------------------------------------------------------
\* the scheduled run has returned after a fetch that returned the empty list,
\* and the manual refresh has answered after one
EmptyFetchRun == pc = "done" /\ calls # <<>> /\ crypto_data = SomeData(<<>>)
EmptyFetchRefresh == RefreshAnswered /\ refresh_data = SomeData(<<>>)

\* C25: a fetch that returns the empty list is handled as one that returns
\* None. The scheduled run calls log_dashboard_update with status "failed" and
\* the fetch-failure message, sends the error alert and returns the error
\* result, its row (there when the write went through) being a "failed" row;
\* the manual refresh answers the fetch error. Neither calls store_crypto_data:
\* no row is written and no timestamp group, so no group is ever empty.
C25_EmptyFetchIsAFetchFailure ==
    /\ EmptyFetchRun =>
          /\ calls = <<"fetchTop", "logRun", "sendErrorAlert">>
          /\ result = ErrorResult(FETCH_ERROR_MSG)
          /\ FailedRunOutcome(FETCH_ERROR_MSG)
          /\ Len(MyUpdates) = (IF log_returned THEN 1 ELSE 0)
          /\ WroteNoMarketData
          /\ \A g \in groups : g.by # runs
    /\ EmptyFetchRefresh =>
          /\ refresh_calls = <<"fetchTop">>
          /\ response = RefreshFetchFailed
          /\ \A row \in Range(CryptoData) : row.by # -refreshes
          /\ \A g \in groups : g.by # -refreshes
    /\ pc \in {"store_begin", "store_commit"} => ~Falsy(crypto_data)
    /\ rpc \in {"store_begin", "store_commit"} => ~Falsy(refresh_data)
    /\ \A g \in groups : g.n > 0
    /\ \A g \in groups : \E row \in Range(CryptoData) : row.timestamp = g.timestamp

\* a scheduled run and a manual refresh that both fetched the empty list
C25_Witness ==
    /\ EmptyFetchRun
    /\ Len(MyUpdates) = 1
    /\ EmptyFetchRefresh
    /\ response.code = 500
    /\ CryptoData = <<>>

----------------------------------------------------------------------------
\* C26: in every reachable state every dashboard_updates row has status
\* "success" or "failed", carries an error message exactly when its status is
\* "failed" (one of the two failure messages of the handler), and a "failed"
\* row has email_sent false.
C26_RowsAreWellFormed ==
    \A row \in Range(DashboardUpdate) :
        /\ row.status \in {"success", "failed"}
        /\ row.error_message # None <=> row.status = "failed"
        /\ row.status = "failed" =>
              /\ row.error_message \in {FETCH_ERROR_MSG, STORE_ERROR_MSG}
              /\ row.email_sent = FALSE

\* the table holds a "failed" row of a store failure and a "success" row of a
\* run whose email went out
C26_Witness ==
    /\ \E row \in Range(DashboardUpdate) :
          row.status = "failed" /\ row.error_message = STORE_ERROR_MSG
    /\ \E row \in Range(DashboardUpdate) :
          row.status = "success" /\ row.email_sent /\ row.error_message = None

----------------------------------------------------------------------------
\* the "success" rows of dashboard_updates and the timestamp groups of crypto_data
SuccessRows == {i \in DOMAIN DashboardUpdate : DashboardUpdate[i].status = "success"}
StoredTimestamps == {CryptoData[i].timestamp : i \in DOMAIN CryptoData}

\* C27: with no cleanup_old_data call, every "success" dashboard_updates row
\* was written after the store_crypto_data call of the same run committed: the
\* run has a committed timestamp group, whose rows are in crypto_data, with a
\* timestamp not later than the row's update_timestamp, and there are never
\* more "success" rows than committed groups.
C27_SuccessRowFollowsItsGroup ==
    /\ purges = 0
    /\ \A i \in SuccessRows :
          \E g \in groups :
              /\ g.by = DashboardUpdate[i].by
              /\ g.timestamp <= DashboardUpdate[i].update_timestamp
              /\ \E row \in Range(CryptoData) :
                    row.by = g.by /\ row.timestamp = g.timestamp
    /\ Cardinality(SuccessRows) <= Cardinality(groups)
    /\ Cardinality(SuccessRows) <= Cardinality(StoredTimestamps)
    /\ Cardinality(groups) = Cardinality(StoredTimestamps)

\* one "success" row of a scheduled run, and a second group committed by a
\* manual refresh, which writes no row
C27_Witness ==
    /\ Cardinality(SuccessRows) = 1
    /\ Cardinality(groups) = 2
    /\ \E g \in groups : g.by < 0
    /\ \E i \in SuccessRows : \E g \in groups :
          g.by = DashboardUpdate[i].by /\ g.timestamp < DashboardUpdate[i].update_timestamp

====
